---- MODULE Spec2Model ----
(***************************************************************************)
(* Model of desafio.py (SISTEMA BANCARIO V3): the command loop of main(),  *)
(* the decorated operations depositar / sacar / criar_conta, the logging   *)
(* decorator registrar_transacao, the user registry, the account list, the *)
(* report generator and the account iterator.                              *)
(*                                                                         *)
(* Amounts are floats in the source (float(input())); here they are        *)
(* integers, i.e. the model covers amounts on which float arithmetic is    *)
(* exact.  Text is ASCII ("Deposito" stands for the source's "Depósito").  *)
(* The timestamp of a log line is left out: it is the wall clock.          *)
(*                                                                         *)
(* A decorated call takes three steps, as in the source: the function body *)
(* runs (Chamar...), the wrapper prints its line (Registrar), the wrapper  *)
(* returns and main assigns the result (Retornar...).  In between no other *)
(* command can run: the program is single-threaded.                        *)
(***************************************************************************)
EXTENDS Integers, Sequences, FiniteSets, TLC

VARIABLES usuarios, contas, numero_conta, saldo, limite, extrato,
          numero_saques, pc, quadro, saida

vars == <<usuarios, contas, numero_conta, saldo, limite, extrato,
          numero_saques, pc, quadro, saida>>

(* ---------------- bounds of the model ---------------- *)

MaxExtrato == 5
MaxContas == 2

(* ---------------- constants of main() ---------------- *)

LIMITE_SAQUES == 3
AGENCIA == "0001"
LimiteInicial == 500

(* ---------------- inputs typed at the prompts ---------------- *)

Valores == {-100, 0, 100, 600}
CPFs == {"111", "222"}
Nomes == {"Ana", "Bia"}
Datas == {"01-01-1990"}
Enderecos == {"Rua A, 1 - Centro - Luanda/LU"}
Tipos == {"", "Deposito", "deposito", "SAQUE", "Saque", "outro"}

(* None for "a dict or None"; tipo_None for "a str or None" (TLC cannot    *)
(* compare a string with a record, so each gets a None of its own sort).   *)
None == [none |-> TRUE]
tipo_None == "<None>"

(* ---------------- helpers ---------------- *)

(* str.lower() on the strings the model uses *)
lower(s) ==
    CASE s = "Deposito" -> "deposito"
      [] s = "deposito" -> "deposito"
      [] s = "DEPOSITO" -> "deposito"
      [] s = "Saque"    -> "saque"
      [] s = "SAQUE"    -> "saque"
      [] s = "saque"    -> "saque"
      [] OTHER          -> s

(* str.upper() on the function names *)
upper(s) ==
    CASE s = "depositar"   -> "DEPOSITAR"
      [] s = "sacar"       -> "SACAR"
      [] s = "criar_conta" -> "CRIAR_CONTA"
      [] OTHER             -> s

msg(texto) == [tipo |-> "msg", texto |-> texto]

(* ---------------- the decorated functions (their bodies) ---------------- *)

depositar_maior_igual(s, valor, e) ==
    IF valor >= 0
    THEN [saldo   |-> s + valor,
          extrato |-> Append(e, <<"Deposito", valor>>),
          impresso |-> msg("Deposito realizado com sucesso")]
    ELSE [saldo   |-> s,
          extrato |-> e,
          impresso |-> msg("Operacao falhou! O valor informado e invalido.")]

depositar_registra_falha(s, valor, e) ==
    IF valor > 0
    THEN [saldo   |-> s + valor,
          extrato |-> Append(e, <<"Deposito", valor>>),
          impresso |-> msg("Deposito realizado com sucesso")]
    ELSE [saldo   |-> s,
          extrato |-> Append(e, <<"Deposito", 0>>),
          impresso |-> msg("Operacao falhou! O valor informado e invalido.")]

depositar_sem_teste(s, valor, e) ==
    [saldo   |-> s + valor,
     extrato |-> Append(e, <<"Deposito", valor>>),
     impresso |-> msg("Deposito realizado com sucesso")]

depositar(s, valor, e) ==
    IF valor > 0
    THEN [saldo   |-> s + valor,
          extrato |-> Append(e, <<"Deposito", valor>>),
          impresso |-> msg("Deposito realizado com sucesso")]
    ELSE [saldo   |-> s,
          extrato |-> e,
          impresso |-> msg("Operacao falhou! O valor informado e invalido.")]

sacar_sem_saldo(s, valor, e, lim, n, limite_saques) ==
    LET excedeu_limite == valor > lim
        excedeu_saques == n >= limite_saques
    IN  IF excedeu_limite
        THEN [saldo |-> s, extrato |-> e, numero_saques |-> n,
              impresso |-> msg("Valor excede o limite permitido.")]
        ELSE IF excedeu_saques
        THEN [saldo |-> s, extrato |-> e, numero_saques |-> n,
              impresso |-> msg("Numero maximo de saques atingido.")]
        ELSE IF valor > 0
        THEN [saldo |-> s - valor,
              extrato |-> Append(e, <<"Saque", -valor>>),
              numero_saques |-> n + 1,
              impresso |-> msg("Saque realizado com sucesso")]
        ELSE [saldo |-> s, extrato |-> e, numero_saques |-> n,
              impresso |-> msg("Valor invalido.")]

sacar_limite_primeiro(s, valor, e, lim, n, limite_saques) ==
    LET excedeu_saldo  == valor > s
        excedeu_limite == valor > lim
        excedeu_saques == n >= limite_saques
    IN  IF excedeu_limite
        THEN [saldo |-> s, extrato |-> e, numero_saques |-> n,
              impresso |-> msg("Valor excede o limite permitido.")]
        ELSE IF excedeu_saldo
        THEN [saldo |-> s, extrato |-> e, numero_saques |-> n,
              impresso |-> msg("Saldo insuficiente.")]
        ELSE IF excedeu_saques
        THEN [saldo |-> s, extrato |-> e, numero_saques |-> n,
              impresso |-> msg("Numero maximo de saques atingido.")]
        ELSE IF valor > 0
        THEN [saldo |-> s - valor,
              extrato |-> Append(e, <<"Saque", -valor>>),
              numero_saques |-> n + 1,
              impresso |-> msg("Saque realizado com sucesso")]
        ELSE [saldo |-> s, extrato |-> e, numero_saques |-> n,
              impresso |-> msg("Valor invalido.")]

sacar_maior_que(s, valor, e, lim, n, limite_saques) ==
    LET excedeu_saldo  == valor > s
        excedeu_limite == valor > lim
        excedeu_saques == n > limite_saques
    IN  IF excedeu_saldo
        THEN [saldo |-> s, extrato |-> e, numero_saques |-> n,
              impresso |-> msg("Saldo insuficiente.")]
        ELSE IF excedeu_limite
        THEN [saldo |-> s, extrato |-> e, numero_saques |-> n,
              impresso |-> msg("Valor excede o limite permitido.")]
        ELSE IF excedeu_saques
        THEN [saldo |-> s, extrato |-> e, numero_saques |-> n,
              impresso |-> msg("Numero maximo de saques atingido.")]
        ELSE IF valor > 0
        THEN [saldo |-> s - valor,
              extrato |-> Append(e, <<"Saque", -valor>>),
              numero_saques |-> n + 1,
              impresso |-> msg("Saque realizado com sucesso")]
        ELSE [saldo |-> s, extrato |-> e, numero_saques |-> n,
              impresso |-> msg("Valor invalido.")]

sacar_sem_contar(s, valor, e, lim, n, limite_saques) ==
    LET excedeu_saldo  == valor > s
        excedeu_limite == valor > lim
        excedeu_saques == n >= limite_saques
    IN  IF excedeu_saldo
        THEN [saldo |-> s, extrato |-> e, numero_saques |-> n,
              impresso |-> msg("Saldo insuficiente.")]
        ELSE IF excedeu_limite
        THEN [saldo |-> s, extrato |-> e, numero_saques |-> n,
              impresso |-> msg("Valor excede o limite permitido.")]
        ELSE IF excedeu_saques
        THEN [saldo |-> s, extrato |-> e, numero_saques |-> n,
              impresso |-> msg("Numero maximo de saques atingido.")]
        ELSE IF valor > 0
        THEN [saldo |-> s - valor,
              extrato |-> Append(e, <<"Saque", -valor>>),
              numero_saques |-> n,
              impresso |-> msg("Saque realizado com sucesso")]
        ELSE [saldo |-> s, extrato |-> e, numero_saques |-> n,
              impresso |-> msg("Valor invalido.")]

sacar_conta_falhas(s, valor, e, lim, n, limite_saques) ==
    LET excedeu_saldo  == valor > s
        excedeu_limite == valor > lim
        excedeu_saques == n >= limite_saques
    IN  IF excedeu_saldo
        THEN [saldo |-> s, extrato |-> e, numero_saques |-> n,
              impresso |-> msg("Saldo insuficiente.")]
        ELSE IF excedeu_limite
        THEN [saldo |-> s, extrato |-> e, numero_saques |-> n,
              impresso |-> msg("Valor excede o limite permitido.")]
        ELSE IF excedeu_saques
        THEN [saldo |-> s, extrato |-> e, numero_saques |-> n,
              impresso |-> msg("Numero maximo de saques atingido.")]
        ELSE IF valor > 0
        THEN [saldo |-> s - valor,
              extrato |-> Append(e, <<"Saque", -valor>>),
              numero_saques |-> n + 1,
              impresso |-> msg("Saque realizado com sucesso")]
        ELSE [saldo |-> s, extrato |-> e, numero_saques |-> n + 1,
              impresso |-> msg("Valor invalido.")]

sacar_valor_positivo(s, valor, e, lim, n, limite_saques) ==
    LET excedeu_saldo  == valor > s
        excedeu_limite == valor > lim
        excedeu_saques == n >= limite_saques
    IN  IF excedeu_saldo
        THEN [saldo |-> s, extrato |-> e, numero_saques |-> n,
              impresso |-> msg("Saldo insuficiente.")]
        ELSE IF excedeu_limite
        THEN [saldo |-> s, extrato |-> e, numero_saques |-> n,
              impresso |-> msg("Valor excede o limite permitido.")]
        ELSE IF excedeu_saques
        THEN [saldo |-> s, extrato |-> e, numero_saques |-> n,
              impresso |-> msg("Numero maximo de saques atingido.")]
        ELSE IF valor > 0
        THEN [saldo |-> s - valor,
              extrato |-> Append(e, <<"Saque", valor>>),
              numero_saques |-> n + 1,
              impresso |-> msg("Saque realizado com sucesso")]
        ELSE [saldo |-> s, extrato |-> e, numero_saques |-> n,
              impresso |-> msg("Valor invalido.")]

sacar_sem_limite(s, valor, e, lim, n, limite_saques) ==
    LET excedeu_saldo  == valor > s
        excedeu_saques == n >= limite_saques
    IN  IF excedeu_saldo
        THEN [saldo |-> s, extrato |-> e, numero_saques |-> n,
              impresso |-> msg("Saldo insuficiente.")]
        ELSE IF excedeu_saques
        THEN [saldo |-> s, extrato |-> e, numero_saques |-> n,
              impresso |-> msg("Numero maximo de saques atingido.")]
        ELSE IF valor > 0
        THEN [saldo |-> s - valor,
              extrato |-> Append(e, <<"Saque", -valor>>),
              numero_saques |-> n + 1,
              impresso |-> msg("Saque realizado com sucesso")]
        ELSE [saldo |-> s, extrato |-> e, numero_saques |-> n,
              impresso |-> msg("Valor invalido.")]

sacar(s, valor, e, lim, n, limite_saques) ==
    LET excedeu_saldo  == valor > s
        excedeu_limite == valor > lim
        excedeu_saques == n >= limite_saques
    IN  IF excedeu_saldo
        THEN [saldo |-> s, extrato |-> e, numero_saques |-> n,
              impresso |-> msg("Saldo insuficiente.")]
        ELSE IF excedeu_limite
        THEN [saldo |-> s, extrato |-> e, numero_saques |-> n,
              impresso |-> msg("Valor excede o limite permitido.")]
        ELSE IF excedeu_saques
        THEN [saldo |-> s, extrato |-> e, numero_saques |-> n,
              impresso |-> msg("Numero maximo de saques atingido.")]
        ELSE IF valor > 0
        THEN [saldo |-> s - valor,
              extrato |-> Append(e, <<"Saque", -valor>>),
              numero_saques |-> n + 1,
              impresso |-> msg("Saque realizado com sucesso")]
        ELSE [saldo |-> s, extrato |-> e, numero_saques |-> n,
              impresso |-> msg("Valor invalido.")]

filtrar_usuario_qualquer(cpf, us) ==
    IF Len(us) > 0 THEN us[1] ELSE None

filtrar_usuario(cpf, us) ==
    LET usuarios_filtrados == SelectSeq(us, LAMBDA u : u.cpf = cpf)
    IN  IF Len(usuarios_filtrados) > 0 THEN usuarios_filtrados[1] ELSE None

(* criar_conta: conta is the returned dict, or None when the function      *)
(* falls off its end.                                                      *)
criar_conta(agencia, numero, us, cpf) ==
    LET usuario == filtrar_usuario(cpf, us)
    IN  IF usuario # None
        THEN [conta |-> [agencia      |-> agencia,
                         numero_conta |-> numero,
                         usuario      |-> usuario,
                         saldo        |-> 0,
                         extrato      |-> <<>>],
              impresso |-> msg("Conta criada com sucesso!")]
        ELSE [conta |-> None,
              impresso |-> msg("Usuario nao encontrado. Criacao de conta encerrada.")]

(* the line the wrapper of registrar_transacao prints after func returned *)
linha_log(func) == [tipo |-> "log", func |-> upper(func)]

registrar_transacao_so_sucesso(func, resultado, out) ==
    IF resultado.impresso.texto \in {"Deposito realizado com sucesso",
                                     "Saque realizado com sucesso",
                                     "Conta criada com sucesso!"}
    THEN Append(out, linha_log(func))
    ELSE out

registrar_transacao(func, resultado, out) ==
    Append(out, linha_log(func))

(* ---------------- generator and iterator ---------------- *)

(* One resumption of the generator of gerar_relatorio: the for loop goes   *)
(* on from position indice of the list (the list itself, not a copy) to    *)
(* the next transaction that passes the test, which it yields, or to the   *)
(* end of the list, where the generator finishes (StopIteration).          *)
RECURSIVE gerar_relatorio_next_sem_lower(_, _, _)
gerar_relatorio_next_sem_lower(transacoes, tipo, indice) ==
    IF indice < Len(transacoes)
    THEN LET t == transacoes[indice + 1]
         IN  IF tipo = tipo_None \/ t[1] = tipo
             THEN [parou |-> FALSE, t |-> t, indice |-> indice + 1]
             ELSE gerar_relatorio_next_sem_lower(transacoes, tipo, indice + 1)
    ELSE [parou |-> TRUE, indice |-> indice]

RECURSIVE gerar_relatorio_next(_, _, _)
gerar_relatorio_next(transacoes, tipo, indice) ==
    IF indice < Len(transacoes)
    THEN LET t == transacoes[indice + 1]
         IN  IF tipo = tipo_None \/ lower(t[1]) = lower(tipo)
             THEN [parou |-> FALSE, t |-> t, indice |-> indice + 1]
             ELSE gerar_relatorio_next(transacoes, tipo, indice + 1)
    ELSE [parou |-> TRUE, indice |-> indice]

(* a for loop over the generator while nothing touches the list *)
RECURSIVE gerar_relatorio_desde(_, _, _)
gerar_relatorio_desde(transacoes, tipo, indice) ==
    LET r == gerar_relatorio_next(transacoes, tipo, indice)
    IN  IF r.parou
        THEN <<>>
        ELSE <<r.t>> \o gerar_relatorio_desde(transacoes, tipo, r.indice)

gerar_relatorio(transacoes, tipo) == gerar_relatorio_desde(transacoes, tipo, 0)

(* ContasIterator.__init__ *)
ContasIterator(cs) == [contas |-> cs, indice |-> 0]

(* ContasIterator.__next__ *)
ContasIterator_next_menos_um(it) ==
    IF it.indice < Len(it.contas) - 1
    THEN LET conta == it.contas[it.indice + 1]
         IN  [parou |-> FALSE,
              valor |-> <<conta.numero_conta, conta.usuario.nome, conta.saldo>>,
              it    |-> [it EXCEPT !.indice = @ + 1]]
    ELSE [parou |-> TRUE, it |-> it]

ContasIterator_next(it) ==
    IF it.indice < Len(it.contas)
    THEN LET conta == it.contas[it.indice + 1]
         IN  [parou |-> FALSE,
              valor |-> <<conta.numero_conta, conta.usuario.nome, conta.saldo>>,
              it    |-> [it EXCEPT !.indice = @ + 1]]
    ELSE [parou |-> TRUE, it |-> it]

(* a for loop over an iterator *)
RECURSIVE percorrer(_)
percorrer(it) ==
    LET r == ContasIterator_next(it)
    IN  IF r.parou THEN <<>> ELSE <<r.valor>> \o percorrer(r.it)

(* ---------------- state ---------------- *)

SemQuadro == [func |-> "nenhum"]

Init ==
    /\ usuarios = <<>>
    /\ contas = <<>>
    /\ numero_conta = 1
    /\ saldo = 0
    /\ limite = LimiteInicial
    /\ extrato = <<>>
    /\ numero_saques = 0
    /\ pc = "menu"
    /\ quadro = SemQuadro
    /\ saida = <<>>

(* ---------------- [d] ---------------- *)

ChamarDepositar(valor) ==
    /\ pc = "menu"
    /\ LET r == depositar(saldo, valor, extrato)
       IN  /\ Len(r.extrato) <= MaxExtrato
           /\ quadro' = [func |-> "depositar",
                         args |-> [saldo |-> saldo, valor |-> valor,
                                   extrato |-> extrato],
                         resultado |-> r]
           /\ extrato' = r.extrato          \* list.append mutates in place
           /\ saida' = <<r.impresso>>
    /\ pc' = "wrapper"
    /\ UNCHANGED <<usuarios, contas, numero_conta, saldo, limite, numero_saques>>

RetornarDepositar ==
    /\ pc = "retorno"
    /\ quadro.func = "depositar"
    /\ saldo' = quadro.resultado.saldo
    /\ extrato' = quadro.resultado.extrato
    /\ pc' = "laco"
    /\ quadro' = SemQuadro
    /\ UNCHANGED <<usuarios, contas, numero_conta, limite, numero_saques, saida>>

(* ---------------- [s] ---------------- *)

ChamarSacar(valor) ==
    /\ pc = "menu"
    /\ LET r == sacar(saldo, valor, extrato, limite, numero_saques, LIMITE_SAQUES)
       IN  /\ Len(r.extrato) <= MaxExtrato
           /\ quadro' = [func |-> "sacar",
                         args |-> [saldo |-> saldo, valor |-> valor,
                                   extrato |-> extrato, limite |-> limite,
                                   numero_saques |-> numero_saques,
                                   limite_saques |-> LIMITE_SAQUES],
                         resultado |-> r]
           /\ extrato' = r.extrato
           /\ saida' = <<r.impresso>>
    /\ pc' = "wrapper"
    /\ UNCHANGED <<usuarios, contas, numero_conta, saldo, limite, numero_saques>>

RetornarSacar_sem_contador ==
    /\ pc = "retorno"
    /\ quadro.func = "sacar"
    /\ saldo' = quadro.resultado.saldo
    /\ extrato' = quadro.resultado.extrato
    /\ pc' = "laco"
    /\ quadro' = SemQuadro
    /\ UNCHANGED <<usuarios, contas, numero_conta, limite, numero_saques, saida>>

RetornarSacar ==
    /\ pc = "retorno"
    /\ quadro.func = "sacar"
    /\ saldo' = quadro.resultado.saldo
    /\ extrato' = quadro.resultado.extrato
    /\ numero_saques' = quadro.resultado.numero_saques
    /\ pc' = "laco"
    /\ quadro' = SemQuadro
    /\ UNCHANGED <<usuarios, contas, numero_conta, limite, saida>>

(* ---------------- [nc] ---------------- *)

ChamarCriarConta(cpf) ==
    /\ pc = "menu"
    /\ LET r == criar_conta(AGENCIA, numero_conta, usuarios, cpf)
       IN  /\ r.conta # None => Len(contas) < MaxContas
           /\ quadro' = [func |-> "criar_conta",
                         args |-> [agencia |-> AGENCIA,
                                   numero_conta |-> numero_conta,
                                   cpf |-> cpf],
                         resultado |-> r]
           /\ saida' = <<r.impresso>>
    /\ pc' = "wrapper"
    /\ UNCHANGED <<usuarios, contas, numero_conta, saldo, limite, extrato,
                   numero_saques>>

RetornarCriarConta_sem_incremento ==
    /\ pc = "retorno"
    /\ quadro.func = "criar_conta"
    /\ IF quadro.resultado.conta # None
       THEN /\ contas' = Append(contas, quadro.resultado.conta)
            /\ numero_conta' = numero_conta
       ELSE UNCHANGED <<contas, numero_conta>>
    /\ pc' = "laco"
    /\ quadro' = SemQuadro
    /\ UNCHANGED <<usuarios, saldo, limite, extrato, numero_saques, saida>>

RetornarCriarConta ==
    /\ pc = "retorno"
    /\ quadro.func = "criar_conta"
    /\ IF quadro.resultado.conta # None
       THEN /\ contas' = Append(contas, quadro.resultado.conta)
            /\ numero_conta' = numero_conta + 1
       ELSE UNCHANGED <<contas, numero_conta>>
    /\ pc' = "laco"
    /\ quadro' = SemQuadro
    /\ UNCHANGED <<usuarios, saldo, limite, extrato, numero_saques, saida>>

(* ---------------- the wrapper's print ---------------- *)

Registrar_chama_de_novo ==
    /\ pc = "wrapper"
    /\ saida' = registrar_transacao(quadro.func, quadro.resultado, saida)
    /\ pc' = "retorno"
    /\ quadro' =
          IF quadro.func = "depositar"
          THEN [quadro EXCEPT !.resultado =
                   depositar(quadro.args.saldo, quadro.args.valor, extrato)]
          ELSE IF quadro.func = "sacar"
          THEN [quadro EXCEPT !.resultado =
                   sacar(quadro.args.saldo, quadro.args.valor, extrato,
                         quadro.args.limite, quadro.args.numero_saques,
                         quadro.args.limite_saques)]
          ELSE quadro
    /\ extrato' = IF quadro.func \in {"depositar", "sacar"}
                  THEN quadro'.resultado.extrato
                  ELSE extrato
    /\ UNCHANGED <<usuarios, contas, numero_conta, saldo, limite,
                   numero_saques>>

Registrar ==
    /\ pc = "wrapper"
    /\ saida' = registrar_transacao(quadro.func, quadro.resultado, saida)
    /\ pc' = "retorno"
    /\ UNCHANGED <<usuarios, contas, numero_conta, saldo, limite, extrato,
                   numero_saques, quadro>>

(* ---------------- [e] ---------------- *)

exibir_extrato(s, e) ==
    (IF Len(e) = 0
     THEN <<msg("Nao foram realizadas movimentacoes.")>>
     ELSE [i \in 1..Len(e) |-> [tipo |-> "transacao", t |-> e[i]]])
    \o <<[tipo |-> "saldo", saldo |-> s]>>

ExibirExtrato ==
    /\ pc = "menu"
    /\ saida' = exibir_extrato(saldo, extrato)
    /\ pc' = "laco"
    /\ UNCHANGED <<usuarios, contas, numero_conta, saldo, limite, extrato,
                   numero_saques, quadro>>

(* ---------------- [nu] ---------------- *)

criar_usuario_sem_teste(us, cpf, nome, data_nascimento, endereco) ==
    [usuarios |-> Append(us, [nome |-> nome,
                              data_nascimento |-> data_nascimento,
                              cpf |-> cpf,
                              endereco |-> endereco]),
     impresso |-> msg("Usuario criado com sucesso!")]

criar_usuario(us, cpf, nome, data_nascimento, endereco) ==
    IF filtrar_usuario(cpf, us) # None
    THEN [usuarios |-> us,
          impresso |-> msg("Ja existe um usuario com este CPF!")]
    ELSE [usuarios |-> Append(us, [nome |-> nome,
                                   data_nascimento |-> data_nascimento,
                                   cpf |-> cpf,
                                   endereco |-> endereco]),
          impresso |-> msg("Usuario criado com sucesso!")]

CriarUsuario(cpf, nome, data_nascimento, endereco) ==
    /\ pc = "menu"
    /\ LET r == criar_usuario(usuarios, cpf, nome, data_nascimento, endereco)
       IN  /\ usuarios' = r.usuarios
           /\ saida' = <<r.impresso>>
    /\ pc' = "laco"
    /\ UNCHANGED <<contas, numero_conta, saldo, limite, extrato,
                   numero_saques, quadro>>

(* ---------------- [lc] ---------------- *)

listar_contas(cs) ==
    LET it == percorrer(ContasIterator(cs))
    IN  [i \in 1..Len(it) |-> [tipo |-> "conta", numero |-> it[i][1],
                               nome |-> it[i][2], saldo |-> it[i][3]]]

ListarContas ==
    /\ pc = "menu"
    /\ saida' = listar_contas(contas)
    /\ pc' = "laco"
    /\ UNCHANGED <<usuarios, contas, numero_conta, saldo, limite, extrato,
                   numero_saques, quadro>>

(* ---------------- [r] ---------------- *)

Relatorio(tipo) ==
    /\ pc = "menu"
    /\ IF Len(extrato) = 0
       THEN saida' = <<msg("Nenhuma transacao registrada.")>>
       ELSE LET rel == gerar_relatorio(extrato,
                                       IF tipo # "" THEN tipo ELSE tipo_None)
            IN  saida' = [i \in 1..Len(rel) |->
                             [tipo |-> "transacao", t |-> rel[i]]]
    /\ pc' = "laco"
    /\ UNCHANGED <<usuarios, contas, numero_conta, saldo, limite, extrato,
                   numero_saques, quadro>>

(* ---------------- [q] and anything else ---------------- *)

Sair ==
    /\ pc = "menu"
    /\ pc' = "fim"
    /\ saida' = <<msg("Encerrando o sistema bancario. Ate logo!")>>
    /\ UNCHANGED <<usuarios, contas, numero_conta, saldo, limite, extrato,
                   numero_saques, quadro>>

(* the loop comes back to opcao = input(menu): saida holds what the       *)
(* iteration that just ended printed, and starts empty for the next one.   *)
Menu ==
    /\ pc = "laco"
    /\ pc' = "menu"
    /\ saida' = <<>>
    /\ UNCHANGED <<usuarios, contas, numero_conta, saldo, limite, extrato,
                   numero_saques, quadro>>

OpcaoInvalida ==
    /\ pc = "menu"
    /\ saida' = <<msg("Opcao invalida. Tente novamente.")>>
    /\ pc' = "laco"
    /\ UNCHANGED <<usuarios, contas, numero_conta, saldo, limite, extrato,
                   numero_saques, quadro>>

Next ==
    \/ \E valor \in Valores : ChamarDepositar(valor)
    \/ RetornarDepositar
    \/ \E valor \in Valores : ChamarSacar(valor)
    \/ RetornarSacar
    \/ \E cpf \in CPFs : ChamarCriarConta(cpf)
    \/ RetornarCriarConta
    \/ Registrar
    \/ ExibirExtrato
    \/ \E cpf \in CPFs, nome \in Nomes, d \in Datas, en \in Enderecos :
          CriarUsuario(cpf, nome, d, en)
    \/ ListarContas
    \/ \E tipo \in Tipos : Relatorio(tipo)
    \/ Sair
    \/ OpcaoInvalida
    \/ Menu

Spec == Init /\ [][Next]_vars

(* ======================================================================= *)
(* gerar_relatorio as a generator object.  A consumer holds the generator  *)
(* of gerar_relatorio(extrato, tipo) and resumes it one next() at a time;  *)
(* between two resumptions it may call depositar or sacar, which append to *)
(* the very list the generator walks.  quadro is the generator (its tipo,  *)
(* the position of its for loop, and the length the list had when it was   *)
(* created), saida is what the consumer has received so far.               *)
(* ======================================================================= *)

MaxInicial == 3

(* saldo, extrato and numero_saques after at most n calls of depositar and *)
(* sacar from the start of main *)
RECURSIVE Alcancaveis(_)
Alcancaveis(n) ==
    IF n = 0
    THEN {[saldo |-> 0, extrato |-> <<>>, numero_saques |-> 0]}
    ELSE LET A == Alcancaveis(n - 1)
         IN  A \cup
             {[saldo |-> depositar(c.saldo, v, c.extrato).saldo,
               extrato |-> depositar(c.saldo, v, c.extrato).extrato,
               numero_saques |-> c.numero_saques] : c \in A, v \in Valores}
             \cup
             {[saldo |-> sacar(c.saldo, v, c.extrato, LimiteInicial,
                               c.numero_saques, LIMITE_SAQUES).saldo,
               extrato |-> sacar(c.saldo, v, c.extrato, LimiteInicial,
                                 c.numero_saques, LIMITE_SAQUES).extrato,
               numero_saques |-> sacar(c.saldo, v, c.extrato, LimiteInicial,
                                       c.numero_saques, LIMITE_SAQUES).numero_saques]
                 : c \in A, v \in Valores}

(* main passes tipo if tipo else None, and only when extrato is not empty *)
InitGerador ==
    /\ usuarios = <<>>
    /\ contas = <<>>
    /\ numero_conta = 1
    /\ limite = LimiteInicial
    /\ \E c \in Alcancaveis(MaxInicial) :
          /\ Len(c.extrato) > 0
          /\ saldo = c.saldo
          /\ extrato = c.extrato
          /\ numero_saques = c.numero_saques
    /\ \E tipo \in Tipos :
          quadro = [func   |-> "gerar_relatorio",
                    tipo   |-> IF tipo # "" THEN tipo ELSE tipo_None,
                    indice |-> 0,
                    inicio |-> Len(extrato)]
    /\ pc = "suspenso"
    /\ saida = <<>>

(* next() on a generator that walks a copy of the list made at creation *)
GeradorNext_copia ==
    /\ pc = "suspenso"
    /\ LET r == gerar_relatorio_next(SubSeq(extrato, 1, quadro.inicio),
                                     quadro.tipo, quadro.indice)
       IN  IF r.parou
           THEN /\ pc' = "esgotado"
                /\ quadro' = [quadro EXCEPT !.indice = r.indice]
                /\ saida' = saida
           ELSE /\ pc' = "suspenso"
                /\ quadro' = [quadro EXCEPT !.indice = r.indice]
                /\ saida' = Append(saida, r.t)
    /\ UNCHANGED <<usuarios, contas, numero_conta, saldo, limite, extrato,
                   numero_saques>>

(* next() on the generator *)
GeradorNext ==
    /\ pc = "suspenso"
    /\ LET r == gerar_relatorio_next(extrato, quadro.tipo, quadro.indice)
       IN  IF r.parou
           THEN /\ pc' = "esgotado"
                /\ quadro' = [quadro EXCEPT !.indice = r.indice]
                /\ saida' = saida
           ELSE /\ pc' = "suspenso"
                /\ quadro' = [quadro EXCEPT !.indice = r.indice]
                /\ saida' = Append(saida, r.t)
    /\ UNCHANGED <<usuarios, contas, numero_conta, saldo, limite, extrato,
                   numero_saques>>

(* the consumer calls depositar between two next() *)
GeradorDepositar(valor) ==
    /\ pc = "suspenso"
    /\ LET r == depositar(saldo, valor, extrato)
       IN  /\ Len(r.extrato) <= MaxExtrato
           /\ saldo' = r.saldo
           /\ extrato' = r.extrato
    /\ UNCHANGED <<usuarios, contas, numero_conta, limite, numero_saques,
                   pc, quadro, saida>>

(* the consumer calls sacar between two next() *)
GeradorSacar(valor) ==
    /\ pc = "suspenso"
    /\ LET r == sacar(saldo, valor, extrato, limite, numero_saques, LIMITE_SAQUES)
       IN  /\ Len(r.extrato) <= MaxExtrato
           /\ saldo' = r.saldo
           /\ extrato' = r.extrato
           /\ numero_saques' = r.numero_saques
    /\ UNCHANGED <<usuarios, contas, numero_conta, limite, pc, quadro, saida>>

NextGerador ==
    \/ GeradorNext
    \/ \E valor \in Valores : GeradorDepositar(valor)
    \/ \E valor \in Valores : GeradorSacar(valor)

SpecGerador == InitGerador /\ [][NextGerador]_vars

(* ======================================================================= *)
(* ContasIterator as an object.  A consumer creates ContasIterator(contas),*)
(* calls next() until StopIteration, then creates a second one over the    *)
(* same list and runs it to its end too.  quadro holds the iterator, the   *)
(* number of the pass and what the first pass yielded; saida is what the   *)
(* consumer has received in the current pass.                              *)
(* ======================================================================= *)

(* the registries criar_usuario can build in at most n calls *)
RECURSIVE Registros(_)
Registros(n) ==
    IF n = 0
    THEN {<<>>}
    ELSE LET R == Registros(n - 1)
         IN  R \cup {criar_usuario(us, cpf, nome, d, en).usuarios :
                        us \in R, cpf \in CPFs, nome \in Nomes,
                        d \in Datas, en \in Enderecos}

(* the account lists main can build in at most n successful criar_conta *)
RECURSIVE Diretorios(_, _)
Diretorios(us, n) ==
    IF n = 0
    THEN {<<>>}
    ELSE LET D == Diretorios(us, n - 1)
         IN  D \cup {Append(cs, criar_conta(AGENCIA, Len(cs) + 1, us, cpf).conta) :
                        cs \in D,
                        cpf \in {c \in CPFs : filtrar_usuario(c, us) # None}}

InitIterador ==
    /\ usuarios \in Registros(Cardinality(CPFs))
    /\ contas \in Diretorios(usuarios, MaxContas)
    /\ numero_conta = Len(contas) + 1
    /\ saldo = 0
    /\ limite = LimiteInicial
    /\ extrato = <<>>
    /\ numero_saques = 0
    /\ pc = "iterando"
    /\ quadro = [func |-> "ContasIterator", it |-> ContasIterator(contas),
                 passada |-> 1, primeira |-> <<>>]
    /\ saida = <<>>

(* next() on the iterator *)
IteradorNext ==
    /\ pc = "iterando"
    /\ LET r == ContasIterator_next(quadro.it)
       IN  IF r.parou
           THEN /\ pc' = "esgotado"
                /\ UNCHANGED <<quadro, saida>>
           ELSE /\ pc' = "iterando"
                /\ quadro' = [quadro EXCEPT !.it = r.it]
                /\ saida' = Append(saida, r.valor)
    /\ UNCHANGED <<usuarios, contas, numero_conta, saldo, limite, extrato,
                   numero_saques>>

(* a second ContasIterator(contas) once the first is exhausted *)
IteradorNovo ==
    /\ pc = "esgotado"
    /\ quadro.passada = 1
    /\ quadro' = [func |-> "ContasIterator", it |-> ContasIterator(contas),
                  passada |-> 2, primeira |-> saida]
    /\ saida' = <<>>
    /\ pc' = "iterando"
    /\ UNCHANGED <<usuarios, contas, numero_conta, saldo, limite, extrato,
                   numero_saques>>

NextIterador == IteradorNext \/ IteradorNovo

SpecIterador == InitIterador /\ [][NextIterador]_vars

(* ======================================================================= *)
(* Properties                                                              *)
(* ======================================================================= *)

RECURSIVE Soma(_)
Soma(e) == IF Len(e) = 0 THEN 0 ELSE Soma(SubSeq(e, 1, Len(e) - 1)) + e[Len(e)][2]

NumSaques(e) == Len(SelectSeq(e, LAMBDA t : t[1] = "Saque"))

NumLogs(out) == Len(SelectSeq(out, LAMBDA l : l.tipo = "log"))

EmChamada(f) == pc \in {"wrapper", "retorno"} /\ quadro.func = f

Registrado(cpf) == \E i \in 1..Len(usuarios) : usuarios[i].cpf = cpf

(* C1: the balance equals the sum of the signed amounts of the entries of  *)
(* the history.  Between calls the balance is main's saldo; while a call   *)
(* of depositar or sacar is returning it is the saldo that call returns.   *)
C1_SaldoIgualSomaExtrato ==
    IF EmChamada("depositar") \/ EmChamada("sacar")
    THEN quadro.resultado.saldo = Soma(extrato)
    ELSE saldo = Soma(extrato)

C1_Witness ==
    /\ pc = "laco"
    /\ \E i \in 1..Len(extrato) : extrato[i][1] = "Deposito"
    /\ \E i \in 1..Len(extrato) : extrato[i][1] = "Saque"
    /\ saldo > 0
    /\ Len(saida) > 0 /\ saida[1] = msg("Saldo insuficiente.")

(* C2: the balance is never negative, neither main's saldo nor the saldo   *)
(* a call of depositar or sacar returns, whatever amounts were typed.      *)
C2_SaldoNaoNegativo ==
    /\ saldo >= 0
    /\ (EmChamada("depositar") \/ EmChamada("sacar"))
          => quadro.resultado.saldo >= 0

C2_Witness ==
    /\ pc = "laco"
    /\ saldo = 0
    /\ numero_saques >= 1
    /\ Len(saida) > 0 /\ saida[1] = msg("Saque realizado com sucesso")

(* C3: sacar reports exactly the first condition that holds, in the order  *)
(* valor > saldo, valor > limite, numero_saques >= limite_saques,          *)
(* valor <= 0; a valor above the saldo always reports "Saldo insuficiente".*)
C3_Esperado(a) ==
    IF a.valor > a.saldo THEN msg("Saldo insuficiente.")
    ELSE IF a.valor > a.limite THEN msg("Valor excede o limite permitido.")
    ELSE IF a.numero_saques >= a.limite_saques
         THEN msg("Numero maximo de saques atingido.")
    ELSE IF a.valor <= 0 THEN msg("Valor invalido.")
    ELSE msg("Saque realizado com sucesso")

C3_OrdemDasVerificacoes ==
    EmChamada("sacar") =>
        /\ quadro.resultado.impresso = C3_Esperado(quadro.args)
        /\ saida[1] = quadro.resultado.impresso
        /\ quadro.args.valor > quadro.args.saldo
              => quadro.resultado.impresso = msg("Saldo insuficiente.")

C3_Witness ==
    /\ EmChamada("sacar")
    /\ quadro.args.valor > quadro.args.saldo
    /\ quadro.args.valor > quadro.args.limite
    /\ quadro.args.numero_saques >= quadro.args.limite_saques
    /\ saida[1] = msg("Saldo insuficiente.")

(* C4: once LIMITE_SAQUES withdrawals have succeeded, a withdrawal whose   *)
(* valor is positive, at most the saldo and at most the limite is rejected *)
(* with "Numero maximo de saques atingido" and changes nothing.            *)
C4_Caso ==
    /\ pc = "retorno"
    /\ quadro.func = "sacar"
    /\ NumSaques(quadro.args.extrato) = LIMITE_SAQUES
    /\ quadro.args.valor > 0
    /\ quadro.args.valor <= quadro.args.saldo
    /\ quadro.args.valor <= quadro.args.limite

C4_LimiteDeSaques ==
    [][C4_Caso =>
          /\ saida[1] = msg("Numero maximo de saques atingido.")
          /\ saldo' = quadro.args.saldo
          /\ extrato' = quadro.args.extrato
          /\ numero_saques' = quadro.args.numero_saques
          /\ NumSaques(extrato') = LIMITE_SAQUES]_vars

C4_Witness ==
    /\ C4_Caso
    /\ \E i \in 1..Len(extrato) :
          /\ extrato[i][1] = "Deposito"
          /\ \E j \in 1..(i - 1) : extrato[j][1] = "Saque"

(* C5: numero_saques stays within 0..LIMITE_SAQUES, and it changes only by *)
(* +1, only when a call of sacar that withdrew returns.                    *)
C5_Passo ==
    numero_saques' # numero_saques =>
        /\ numero_saques' = numero_saques + 1
        /\ pc = "retorno"
        /\ quadro.func = "sacar"
        /\ quadro.resultado.impresso = msg("Saque realizado com sucesso")

C5_ContadorDeSaques ==
    /\ [](numero_saques \in 0..LIMITE_SAQUES)
    /\ [][C5_Passo]_vars

C5_Witness ==
    /\ pc = "laco"
    /\ numero_saques = LIMITE_SAQUES
    /\ Len(saida) > 0 /\ saida[1] = msg("Numero maximo de saques atingido.")

(* C6: a call of depositar with valor <= 0 leaves saldo and extrato        *)
(* unchanged, in each of its steps.                                        *)
C6_Passo ==
    (\/ (quadro.func = "depositar" /\ quadro.args.valor <= 0)
     \/ (quadro'.func = "depositar" /\ quadro'.args.valor <= 0))
    => (saldo' = saldo /\ extrato' = extrato)

C6_DepositoInvalido == [][C6_Passo]_vars

C6_Witness ==
    /\ pc = "retorno"
    /\ quadro.func = "depositar"
    /\ quadro.args.valor <= 0
    /\ Len(extrato) > 0
    /\ saldo > 0

(* C7: a call of sacar either commits (saldo minus valor, one entry        *)
(* ("Saque", -valor) appended, numero_saques plus 1) or changes none of    *)
(* the three.                                                              *)
C7_Passo ==
    (pc = "retorno" /\ quadro.func = "sacar" /\ pc' = "laco") =>
        \/ /\ saldo' = quadro.args.saldo - quadro.args.valor
           /\ extrato' = Append(quadro.args.extrato,
                                <<"Saque", -quadro.args.valor>>)
           /\ numero_saques' = quadro.args.numero_saques + 1
        \/ /\ saldo' = quadro.args.saldo
           /\ extrato' = quadro.args.extrato
           /\ numero_saques' = quadro.args.numero_saques

C7_SaqueAtomico == [][C7_Passo]_vars

C7_Witness ==
    /\ pc = "retorno"
    /\ quadro.func = "sacar"
    /\ quadro.resultado.extrato # quadro.args.extrato
    /\ quadro.args.numero_saques = 1

(* C8: every call of a decorated function prints exactly one log line,     *)
(* naming that function, whether the call succeeded or was rejected, and   *)
(* the line is printed after the function has made its changes (the entry  *)
(* is in extrato, the new saldo is in its result) and printed its message. *)
C8_Passo ==
    /\ (pc = "wrapper" /\ pc' = "retorno") =>
          /\ NumLogs(saida) = 0
          /\ saida = <<quadro.resultado.impresso>>
          /\ saida' = Append(saida, [tipo |-> "log", func |-> upper(quadro.func)])
          /\ quadro.func \in {"depositar", "sacar"} =>
                /\ extrato = quadro.resultado.extrato
                /\ quadro.resultado.saldo = Soma(extrato)
    /\ (pc = "retorno" /\ pc' = "laco") =>
          /\ NumLogs(saida) = 1
          /\ saida[Len(saida)] = [tipo |-> "log", func |-> upper(quadro.func)]
          /\ saida' = saida
    /\ (pc = "menu" /\ pc' = "wrapper") => NumLogs(saida') = 0

C8_UmaLinhaDeLog == [][C8_Passo]_vars

C8_Witness ==
    /\ pc = "retorno"
    /\ quadro.func = "sacar"
    /\ quadro.resultado.impresso = msg("Valor excede o limite permitido.")
    /\ NumLogs(saida) = 1

(* C9: the k-th account of contas has numero_conta k, and the next number  *)
(* to give out is one more than the number of accounts.                    *)
C9_NumerosDeConta ==
    /\ \A k \in 1..Len(contas) : contas[k].numero_conta = k
    /\ numero_conta = Len(contas) + 1

C9_Witness ==
    /\ pc = "retorno"
    /\ quadro.func = "criar_conta"
    /\ quadro.resultado.conta = None
    /\ Len(contas) = 2

(* C10: criar_conta for a CPF that is not registered adds no account and   *)
(* leaves numero_conta; every account's usuario is a registered user; an   *)
(* account enters contas with saldo 0 and an empty extrato.                *)
C10_Passo ==
    /\ (pc = "retorno" /\ quadro.func = "criar_conta"
           /\ ~Registrado(quadro.args.cpf))
          => (contas' = contas /\ numero_conta' = numero_conta)
    /\ contas' # contas =>
          /\ Len(contas') = Len(contas) + 1
          /\ SubSeq(contas', 1, Len(contas)) = contas
          /\ contas'[Len(contas')].saldo = 0
          /\ contas'[Len(contas')].extrato = <<>>
          /\ contas'[Len(contas')].usuario.cpf = quadro.args.cpf

C10_ContaSoParaUsuario ==
    /\ [](\A k \in 1..Len(contas) :
             \E i \in 1..Len(usuarios) : usuarios[i] = contas[k].usuario)
    /\ [][C10_Passo]_vars

C10_Witness ==
    /\ pc = "retorno"
    /\ quadro.func = "criar_conta"
    /\ ~Registrado(quadro.args.cpf)
    /\ Len(usuarios) > 0
    /\ Len(contas) > 0

(* C11: registering a CPF that is already registered is rejected and       *)
(* leaves usuarios unchanged; no two users share a CPF; filtrar_usuario    *)
(* returns the one user with the CPF, or None when there is none.          *)
C11_Estado ==
    /\ \A i, j \in 1..Len(usuarios) :
          usuarios[i].cpf = usuarios[j].cpf => i = j
    /\ \A cpf \in CPFs :
          LET achado == filtrar_usuario(cpf, usuarios)
          IN  IF Registrado(cpf)
              THEN /\ achado # None
                   /\ achado.cpf = cpf
                   /\ \E i \in 1..Len(usuarios) : usuarios[i] = achado
              ELSE achado = None

C11_Passo ==
    /\ (pc = "menu" /\ saida' = <<msg("Ja existe um usuario com este CPF!")>>)
          => usuarios' = usuarios
    /\ usuarios' # usuarios =>
          /\ Len(usuarios') = Len(usuarios) + 1
          /\ SubSeq(usuarios', 1, Len(usuarios)) = usuarios
          /\ ~Registrado(usuarios'[Len(usuarios')].cpf)
          /\ saida' = <<msg("Usuario criado com sucesso!")>>

C11_CpfUnico == []C11_Estado /\ [][C11_Passo]_vars

C11_Witness ==
    /\ pc = "laco"
    /\ saida = <<msg("Ja existe um usuario com este CPF!")>>
    /\ Len(usuarios) = 2

(* the transactions of e whose kind equals tipo ignoring letter case, or   *)
(* all of them when there is no tipo *)
MesmoTipo(a, b) == lower(a) = lower(b)

Esperado(e, tipo) ==
    IF tipo = tipo_None
    THEN e
    ELSE SelectSeq(e, LAMBDA t : MesmoTipo(t[1], tipo))

(* C12: run to its end, gerar_relatorio(extrato, None) has yielded exactly *)
(* the entries of extrato in order, and gerar_relatorio(extrato, tipo)     *)
(* exactly those whose kind equals tipo ignoring letter case, in order.    *)
C12_RelatorioCompleto ==
    pc = "esgotado" => saida = Esperado(extrato, quadro.tipo)

C12_Witness ==
    /\ pc = "esgotado"
    /\ quadro.tipo = "deposito"
    /\ Len(extrato) = quadro.inicio
    /\ Len(saida) >= 2
    /\ Len(saida) < Len(extrato)

(* C13: run to StopIteration, an iterator over contas has yielded exactly  *)
(* Len(contas) tuples, the i-th being (numero_conta, nome of the owner,    *)
(* saldo) of the i-th account created; a second iterator over the same     *)
(* list yields the same sequence.                                          *)
C13_IteradorCompleto ==
    pc = "esgotado" =>
        /\ Len(saida) = Len(contas)
        /\ \A i \in 1..Len(contas) :
              /\ contas[i].numero_conta = i
              /\ saida[i] = <<contas[i].numero_conta,
                              contas[i].usuario.nome,
                              contas[i].saldo>>
        /\ quadro.passada = 2 => saida = quadro.primeira

C13_Witness ==
    /\ pc = "esgotado"
    /\ quadro.passada = 2
    /\ Len(contas) = 2
    /\ Len(saida) = 2
    /\ saida[1][2] # saida[2][2]

(* C14: the saldo the iterator yields for an account follows the deposits  *)
(* and withdrawals: after a deposit of valor that succeeded every listed   *)
(* saldo is valor higher, after a withdrawal that succeeded valor lower.   *)
Listado(cs) == percorrer(ContasIterator(cs))

C14_Passo ==
    /\ (pc = "retorno" /\ pc' = "laco" /\ quadro.func = "depositar"
           /\ quadro.resultado.impresso = msg("Deposito realizado com sucesso"))
          => \A k \in 1..Len(contas) :
                Listado(contas')[k][3] = Listado(contas)[k][3] + quadro.args.valor
    /\ (pc = "retorno" /\ pc' = "laco" /\ quadro.func = "sacar"
           /\ quadro.resultado.impresso = msg("Saque realizado com sucesso"))
          => \A k \in 1..Len(contas) :
                Listado(contas')[k][3] = Listado(contas)[k][3] - quadro.args.valor

C14_SaldoListado == [][C14_Passo]_vars

(* C15: a call through the wrapper leaves main with the saldo, extrato and *)
(* numero_saques the undecorated function returns for the same arguments,  *)
(* returns that same result, and prints the function's message followed by *)
(* the log line and nothing else.                                          *)
C15_Passo ==
    /\ (pc = "retorno" /\ pc' = "laco" /\ quadro.func = "depositar") =>
          LET u == depositar(quadro.args.saldo, quadro.args.valor,
                             quadro.args.extrato)
          IN  /\ quadro.resultado = u
              /\ saldo' = u.saldo
              /\ extrato' = u.extrato
              /\ numero_saques' = numero_saques
              /\ saida' = <<u.impresso, [tipo |-> "log", func |-> "DEPOSITAR"]>>
    /\ (pc = "retorno" /\ pc' = "laco" /\ quadro.func = "sacar") =>
          LET u == sacar(quadro.args.saldo, quadro.args.valor,
                         quadro.args.extrato, quadro.args.limite,
                         quadro.args.numero_saques, quadro.args.limite_saques)
          IN  /\ quadro.resultado = u
              /\ saldo' = u.saldo
              /\ extrato' = u.extrato
              /\ numero_saques' = u.numero_saques
              /\ saida' = <<u.impresso, [tipo |-> "log", func |-> "SACAR"]>>

C15_WrapperEquivalente == [][C15_Passo]_vars

C15_Witness ==
    /\ pc = "retorno"
    /\ quadro.func = "sacar"
    /\ quadro.resultado.impresso = msg("Saque realizado com sucesso")
    /\ quadro.args.numero_saques = 2
    /\ NumLogs(saida) = 1

(* C16: the generator reads the list itself: what the consumer has         *)
(* received is always the matching entries of the part of extrato the      *)
(* generator has walked, in order and each position once, and it finishes  *)
(* only at the end of the list as it is then, so an entry appended while   *)
(* the generator was suspended is yielded by it.                           *)
C16_RelatorioVivo ==
    /\ quadro.indice <= Len(extrato)
    /\ saida = Esperado(SubSeq(extrato, 1, quadro.indice), quadro.tipo)
    /\ pc = "esgotado" => quadro.indice = Len(extrato)

C16_Witness ==
    /\ pc = "esgotado"
    /\ quadro.tipo = "SAQUE"
    /\ quadro.inicio < Len(extrato)
    /\ quadro.inicio >= 2
    /\ Len(saida) >= 2
    /\ extrato[Len(extrato)][1] = "Saque"
    /\ saida[Len(saida)] = extrato[Len(extrato)]

(* C17: extrato only grows at its end, by one entry per call, and only in  *)
(* a call of depositar or sacar that succeeded.                            *)
C17_Passo ==
    \/ extrato' = extrato
    \/ /\ Len(extrato') = Len(extrato) + 1
       /\ SubSeq(extrato', 1, Len(extrato)) = extrato
       /\ pc = "menu"
       /\ pc' = "wrapper"
       /\ \/ /\ quadro'.func = "depositar"
             /\ quadro'.args.valor > 0
             /\ quadro'.resultado.impresso = msg("Deposito realizado com sucesso")
             /\ extrato'[Len(extrato')] = <<"Deposito", quadro'.args.valor>>
          \/ /\ quadro'.func = "sacar"
             /\ quadro'.resultado.impresso = msg("Saque realizado com sucesso")
             /\ extrato'[Len(extrato')] = <<"Saque", -quadro'.args.valor>>

C17_ExtratoSoCresce == [][C17_Passo]_vars

C17_Witness ==
    /\ pc = "wrapper"
    /\ quadro.func = "sacar"
    /\ Len(extrato) = Len(quadro.args.extrato) + 1
    /\ Len(quadro.args.extrato) >= 2
    /\ Len(usuarios) > 0
    /\ Len(contas) > 0

(* C18: numero_saques is the number of "Saque" entries of extrato (while a *)
(* call of sacar is returning, the numero_saques it returns).              *)
C18_SaquesNoExtrato ==
    IF EmChamada("sacar")
    THEN quadro.resultado.numero_saques = NumSaques(extrato)
    ELSE numero_saques = NumSaques(extrato)

C18_Witness ==
    /\ pc = "laco"
    /\ numero_saques = 2
    /\ Len(extrato) = 5
    /\ extrato[5][1] = "Deposito"
    /\ saida[1] = msg("Deposito realizado com sucesso")

(* C19: sacar with valor <= 0 never prints "Saldo insuficiente" nor "Valor *)
(* excede o limite": it prints "Valor invalido" while numero_saques is     *)
(* below the limit and "Numero maximo de saques atingido" otherwise, and   *)
(* returns saldo, extrato and numero_saques as passed.                     *)
C19_SaqueNaoPositivo ==
    (EmChamada("sacar") /\ quadro.args.valor <= 0) =>
        /\ quadro.resultado.impresso =
              IF quadro.args.numero_saques < quadro.args.limite_saques
              THEN msg("Valor invalido.")
              ELSE msg("Numero maximo de saques atingido.")
        /\ quadro.resultado.saldo = quadro.args.saldo
        /\ quadro.resultado.extrato = quadro.args.extrato
        /\ quadro.resultado.numero_saques = quadro.args.numero_saques
        /\ extrato = quadro.args.extrato
        /\ saldo = quadro.args.saldo
        /\ numero_saques = quadro.args.numero_saques

C19_Witness ==
    /\ EmChamada("sacar")
    /\ quadro.args.valor < 0
    /\ quadro.args.numero_saques = LIMITE_SAQUES
    /\ quadro.resultado.impresso = msg("Numero maximo de saques atingido.")

(* C20: every entry of extrato is a "Deposito" with a positive amount or a *)
(* "Saque" with a negative amount of magnitude at most the limite and at   *)
(* most the sum of the entries before it.                                  *)
C20_EntradasDoExtrato ==
    \A i \in 1..Len(extrato) :
        \/ /\ extrato[i][1] = "Deposito"
           /\ extrato[i][2] > 0
        \/ /\ extrato[i][1] = "Saque"
           /\ extrato[i][2] < 0
           /\ -extrato[i][2] <= limite
           /\ -extrato[i][2] <= Soma(SubSeq(extrato, 1, i - 1))

C20_Witness ==
    /\ pc = "laco"
    /\ Len(extrato) >= 3
    /\ NumSaques(extrato) = 2
    /\ extrato[Len(extrato)][1] = "Saque"
    /\ saldo = 0

====
